---- MODULE Spec2Model ----
(***************************************************************************)
(* Tabbed-panel view controller (class Tabs, js/components/tabs.js).       *)
(* The page markup and the address fragment are the inputs; the model      *)
(* follows one Tabs instance from construction through switch requests,    *)
(* the asynchronous switch chain (fetch, image preload, two animation      *)
(* timers) and the responsive trigger menu.                                *)
(***************************************************************************)
EXTENDS Naturals, Sequences, FiniteSets

\* ------------------------------------------------------------------ bounds

\* pushState entries the model lets one page accumulate
MaxHist == 3

\* triggers the model lets addTab grow the page to
MaxTabs == 4

\* ------------------------------------------------------------------ markup

\* the triggers of the page, in document order ($$('.tab-btn'))
TabOrder == <<"A", "B", "C">>

TabIds == {TabOrder[i] : i \in 1..Len(TabOrder)}

Null == "null"

\* fragments the page may be opened with: none, a tab id, an unrelated anchor
Fragments == TabIds \cup {"", "zz"}

\* panels that may carry data-load / data-load-url in the markup
RemoteCandidates == {"B", "C"}

\* panels that may hold img[data-src] in the static markup
LazyCandidates == {"A"}

\* triggers whose panel may be missing from the markup
OrphanCandidates == {"C"}

VARIABLES
    boot,           \* "page": not constructed; "resolving": initial switch in flight; "ready"
    hash,           \* window.location.hash without '#'
    historyLen,     \* entries pushed with history.pushState
    panels,         \* ids of the .tab-content elements in the container
    remote,         \* panels with data-load and data-load-url
    loaded,         \* panels with data-loaded
    content,        \* per panel: "static" markup, "fetched" html, the inline "error" block
                    \* or html "set" by setTabContent
    lazyImgs,       \* panels holding img[data-src]
    btnActive,      \* triggers with class active
    panelActive,    \* panels with class active
    tabLoading,     \* triggers with class tab-loading
    opacity,        \* per panel: style.opacity ("unset", "0", "1")
    ariaSelected,   \* per trigger: aria-selected ("unset", "true", "false")
    tabindex,       \* per trigger: tabindex ("unset", "0", "-1")
    ariaHidden,     \* per panel: aria-hidden ("unset", "true", "false")
    activeTab,      \* this.activeTab
    transitioning,  \* this.transitioning
    pc,             \* suspension point of the switch in flight
    target,         \* switchToTab: button / targetTab of the switch in flight
    curBtn,         \* switchToTab: currentButton
    curPanel,       \* switchToTab: currentContent
    menuOpen,       \* the collapsed trigger menu (.tab-toggle + sibling) carries active
    lastTap,        \* the last activation of the .tab-toggle: the pointer that made it
                    \* and the menu as it met it
    events,         \* tabChange events dispatched
    lastEvent,      \* detail of the last tabChange event dispatched on the container
    windowHeard,    \* tabChange events a listener on window has been invoked with
    promise,        \* promise returned by the accepted switchToTab call
    lastReq,        \* the last switch request: its entry point, its tab, what it found
    lastSwitch,     \* how the last accepted switch ended
    pre,            \* what an observer saw when the last switch was accepted
    focus,          \* the trigger holding keyboard focus, its index in this.tabButtons
                    \* and what put focus there
    thrown,         \* the exception the last call of a public method ended with
    tabButtons,     \* this.tabButtons: the .tab-btn elements in document order
    tabContents,    \* this.tabContents: the .tab-content elements in document order
    lastCall,       \* the last addTab / removeTab call and what it found
    disabled,       \* triggers with the disabled attribute
    destroyed,      \* destroy() has been called
    counter,        \* a counter animation: the numbers animateCounter computed, the
                    \* number the element shows and the state of its interval
    gallery,        \* the Gallery component: its items, its fields and its lightbox
    eventList,      \* the Events component: its cards, its fields, the cards displayed
                    \* and its load-more button
    programNav,     \* ProgramNavigation: the page's links and sections, the window
                    \* flag, the listeners bound and the runs of switchProgram
    navigation,     \* Navigation: the classes of the menu, the toggle, its icon, the
                    \* body and the header, and the link marked active
    debounced       \* a function wrapped by debounce: the wait, the timeout variable
                    \* of the closure, the timers pending, and the calls and runs so far

markupVars == <<panels, remote>>
loadVars == <<loaded, content, lazyImgs>>
classVars == <<btnActive, panelActive>>
ariaVars == <<ariaSelected, tabindex, ariaHidden>>
chainVars == <<transitioning, pc, target, curBtn, curPanel>>
urlVars == <<hash, historyLen>>
outVars == <<events, lastEvent, windowHeard, promise, lastSwitch, pre>>
\* what switchToTab's own statements may write (its callers write the rest)
switchVars == <<markupVars, loadVars, classVars, tabLoading, opacity, chainVars,
                urlVars, outVars, activeTab>>
\* the element lists addTab and removeTab rebuild
registryVars == <<tabButtons, tabContents, lastCall>>
\* what no statement of the switch chain or of the trigger menu writes
\* what setTabEnabled and destroy write
lifeVars == <<disabled, destroyed>>
\* the other components of the site
siteVars == <<counter, gallery, eventList, programNav, navigation, debounced>>
sideVars == <<focus, thrown, registryVars, lifeVars, lastTap, siteVars>>
vars == <<boot, switchVars, ariaVars, menuOpen, lastReq, sideVars>>

\* the state of the tab controller, which the other components leave alone
tabsVars == <<boot, switchVars, ariaVars, menuOpen, lastReq, focus, thrown,
              registryVars, lifeVars, lastTap>>

\* ------------------------------------------------------------------ helpers

IndexOf(t) == CHOOSE i \in 1..Len(TabOrder) : TabOrder[i] = t

\* querySelector: the first match in document order, or null
FirstOf(S) ==
    IF S \cap TabIds = {} THEN Null
    ELSE CHOOSE t \in S \cap TabIds : \A u \in S \cap TabIds : IndexOf(t) <= IndexOf(u)

Without(S, x) == S \ {x}

\* an element of the tab markup: its tab id (data-tab of a trigger, id of a
\* panel) and whether it came with the page or was created by addTab
Element(id, markup) == [id |-> id, markup |-> markup]

IdsOf(elements) == {elements[i].id : i \in 1..Len(elements)}

\* the triggers in this.tabButtons, by data-tab
Registered == IdsOf(tabButtons)

\* ------------------------------------------------------------------ switchToTab

\* variant: the guard forgets the switch in progress
SwitchGuardNoBusy(b) == b \in btnActive

\* variant: the guard forgets the active trigger
SwitchGuardNoActive(b) == transitioning

\* the early return of switchToTab: a switch is running, or the trigger is active
SwitchGuard(b) == transitioning \/ b \in btnActive

\* $('.tab-btn.active') and $('.tab-content.active')
CurrentButton == FirstOf(btnActive \cap Registered)

CurrentContent == FirstOf(panelActive \cap panels)

\* variant: data-loaded is not consulted
ShouldLoadAlways(t) == t \in remote

\* variant: a panel showing the inline error block is not fetched again
ShouldLoadUnlessFailed(t) == t \in remote /\ t \notin loaded /\ content[t] # "error"

\* preloadTabContent: data-load present, data-loaded absent, data-load-url set
ShouldLoad(t) == t \in remote /\ t \notin loaded

\* performTabTransition, first statements: the current panel fades out
FadeOut(op, cur) == IF cur = Null THEN op ELSE [op EXCEPT ![cur] = "0"]

\* variant: the entry is pushed with the fragment as it was
PushedFragmentStale(targetTab) == hash

\* history.pushState(null, null, `#${targetTab}`): the fragment it leaves
PushedFragment(targetTab) == targetTab

\* what an observer of the page sees when a switch is accepted
Snapshot(b) ==
    [target |-> b, hash |-> hash, hist |-> historyLen, activeTab |-> activeTab,
     btnActive |-> btnActive, panelActive |-> panelActive, events |-> events,
     loaded |-> loaded, retry |-> content[b] = "error"]

\* a switch request as its caller issued it, with the phase and the trigger's
\* active flag it met
Requested(via, id) ==
    [via |-> via, tab |-> id, busy |-> transitioning, active |-> id \in btnActive]

\* preloadTabContent from the image preload on: every img[data-src] of the panel
\* starts loading and loses data-src; with none, Promise.all resolves at once and
\* performTabTransition starts its first timer
StartImages(t, cur, hasLazy) ==
    /\ lazyImgs' = Without(lazyImgs, t)
    /\ IF hasLazy
       THEN pc' = "images" /\ UNCHANGED opacity
       ELSE pc' = "fadeOut" /\ opacity' = FadeOut(opacity, cur)

\* switchToTab up to its first suspension point
SwitchToTab(b) ==
    IF SwitchGuard(b)
    THEN UNCHANGED switchVars
    ELSE IF b \notin panels
    THEN /\ lastSwitch' = "noPanel"
         /\ promise' = "fulfilled"
         /\ pre' = Snapshot(b)
         /\ UNCHANGED <<markupVars, loadVars, classVars, tabLoading, opacity,
                        chainVars, urlVars, events, lastEvent, windowHeard,
                        activeTab>>
    ELSE /\ transitioning' = TRUE
         /\ target' = b
         /\ curBtn' = CurrentButton
         /\ curPanel' = CurrentContent
         /\ hash' = PushedFragment(b)
         /\ historyLen' = historyLen + 1
         /\ tabLoading' = tabLoading \cup {b}
         /\ promise' = "pending"
         /\ lastSwitch' = "running"
         /\ pre' = Snapshot(b)
         /\ UNCHANGED <<markupVars, loaded, content, classVars, events, lastEvent,
                        windowHeard, activeTab>>
         /\ IF ShouldLoad(b)
            THEN pc' = "fetch" /\ UNCHANGED <<lazyImgs, opacity>>
            ELSE StartImages(b, CurrentContent, b \in lazyImgs)

\* variant: the busy flag is reset on the success path only
AbortStaysBusy(outcome) ==
    /\ tabLoading' = Without(tabLoading, target)
    /\ pc' = "idle"
    /\ target' = Null
    /\ curBtn' = Null
    /\ curPanel' = Null
    /\ promise' = "fulfilled"
    /\ lastSwitch' = outcome
    /\ boot' = "ready"
    /\ UNCHANGED <<markupVars, classVars, ariaVars, urlVars, events, lastEvent,
                   windowHeard, pre,
                   activeTab, menuOpen, lastReq, sideVars, transitioning>>

\* the catch and finally blocks of switchToTab after a rejected preload
Abort(outcome) ==
    /\ tabLoading' = Without(tabLoading, target)
    /\ transitioning' = FALSE
    /\ pc' = "idle"
    /\ target' = Null
    /\ curBtn' = Null
    /\ curPanel' = Null
    /\ promise' = "fulfilled"
    /\ lastSwitch' = outcome
    /\ boot' = "ready"
    /\ UNCHANGED <<markupVars, classVars, ariaVars, urlVars, events, lastEvent,
                   windowHeard, pre,
                   activeTab, menuOpen, lastReq, sideVars>>

\* ------------------------------------------------------------------ the switch chain

\* variant: the current element keeps active when the new one gains it
SwapActiveKeep(S, cur, new) == S \cup {new}

\* performTabTransition, first timer: active leaves the current element and
\* enters the new one
SwapActive(S, cur, new) == (S \ {cur}) \cup {new}

\* variant: classList.add where classList.remove was meant
UpdateActiveClassAdd(S, registered, a) == S \cup registered \cup {a}

\* updateActiveStates: every registered element loses active, the new one gains it
UpdateActiveClass(S, registered, a) == (S \ registered) \cup {a}

\* updateActiveStates: every panel is faded out, the active one shown
UpdateOpacity(op, a) ==
    [t \in TabIds |-> IF t = a THEN "1" ELSE IF t \in panels THEN "0" ELSE op[t]]

\* updateTabAccessibility: aria-selected of every trigger, from its active class
AriaSelectedOf(cls) ==
    [t \in TabIds |->
        IF t \in Registered THEN (IF t \in cls THEN "true" ELSE "false")
        ELSE ariaSelected[t]]

\* updateTabAccessibility: tabindex of every trigger
TabindexOf(cls) ==
    [t \in TabIds |->
        IF t \in Registered THEN (IF t \in cls THEN "0" ELSE "-1") ELSE tabindex[t]]

\* variant: aria-hidden written with isActive instead of !isActive
AriaHiddenOfInverted(old, cls) ==
    [t \in TabIds |->
        IF t \in panels \cap Registered
        THEN (IF t \in cls THEN "true" ELSE "false")
        ELSE old[t]]

\* updateTabAccessibility: aria-hidden of every trigger's panel, when it exists
AriaHiddenOf(old, cls) ==
    [t \in TabIds |->
        IF t \in panels \cap Registered
        THEN (IF t \in cls THEN "false" ELSE "true")
        ELSE old[t]]

UpdateTabAccessibility(cls) ==
    /\ ariaSelected' = AriaSelectedOf(cls)
    /\ tabindex' = TabindexOf(cls)
    /\ ariaHidden' = AriaHiddenOf(ariaHidden, cls)

\* variant: the event is built from this.activeTab before it is assigned
TabChangeDetailStale(tabId) ==
    [tabId |-> activeTab,
     tabElement |-> IF activeTab \in panels THEN activeTab ELSE Null,
     buttonElement |-> IF activeTab \in TabIds THEN activeTab ELSE Null]

\* dispatchTabChangeEvent: the detail of the event dispatched on the container
TabChangeDetail(tabId) ==
    [tabId |-> tabId,
     tabElement |-> IF tabId \in panels THEN tabId ELSE Null,
     buttonElement |-> IF tabId \in TabIds THEN tabId ELSE Null]

\* dispatchTabChangeEvent: the two events it dispatches, in order
TabChangeEvents ==
    <<[on |-> "container", bubbles |-> TRUE], [on |-> "window", bubbles |-> FALSE]>>

\* how often a listener on window for the type is invoked by a list of
\* dispatches: an event dispatched on window reaches it, and so does an event
\* dispatched on an element of the document when it bubbles
HeardOnWindow(dispatches) ==
    Cardinality({i \in DOMAIN dispatches :
                    dispatches[i].on = "window" \/ dispatches[i].bubbles})

\* the fetch of data-load-url settles; ok = FALSE is a rejected fetch or text(),
\* imgs says whether the fetched html holds img[data-src]
FetchSettled ==
    /\ pc = "fetch"
    /\ \E ok \in BOOLEAN, imgs \in BOOLEAN :
        IF ok
        THEN /\ content' = [content EXCEPT ![target] = "fetched"]
             /\ loaded' = loaded \cup {target}
             /\ StartImages(target, curPanel, imgs)
             /\ UNCHANGED <<boot, markupVars, classVars, tabLoading, ariaVars,
                            transitioning, target, curBtn, curPanel, urlVars, outVars,
                            activeTab, menuOpen, lastReq, sideVars>>
        ELSE /\ content' = [content EXCEPT ![target] = "error"]
             /\ lazyImgs' = Without(lazyImgs, target)
             /\ UNCHANGED <<loaded, opacity>>
             /\ Abort("fetchFailed")

\* Promise.all over the image loads settles
ImagesSettled ==
    /\ pc = "images"
    /\ \E ok \in BOOLEAN :
        IF ok
        THEN /\ pc' = "fadeOut"
             /\ opacity' = FadeOut(opacity, curPanel)
             /\ UNCHANGED <<boot, markupVars, loadVars, classVars, tabLoading, ariaVars,
                            transitioning, target, curBtn, curPanel, urlVars, outVars,
                            activeTab, menuOpen, lastReq, sideVars>>
        ELSE /\ UNCHANGED <<loadVars, opacity>>
             /\ Abort("imageFailed")

\* performTabTransition, the 300 ms timer
FadeOutTimer ==
    /\ pc = "fadeOut"
    /\ btnActive' = SwapActive(btnActive, curBtn, target)
    /\ panelActive' = SwapActive(panelActive, curPanel, target)
    /\ pc' = "fadeIn"
    /\ UNCHANGED <<boot, markupVars, loadVars, tabLoading, opacity, ariaVars,
                   transitioning, target, curBtn, curPanel, urlVars, outVars,
                   activeTab, menuOpen, lastReq, sideVars>>

\* performTabTransition, the 50 ms timer, and the rest of switchToTab's try block
\* and its finally block
FadeInTimer ==
    /\ pc = "fadeIn"
    /\ btnActive' = UpdateActiveClass(btnActive, Registered, target)
    /\ panelActive' = UpdateActiveClass(panelActive, panels, target)
    /\ opacity' = UpdateOpacity(opacity, target)
    /\ UpdateTabAccessibility(btnActive')
    /\ activeTab' = target
    /\ events' = events + 1
    /\ lastEvent' = TabChangeDetail(target)
    /\ windowHeard' = windowHeard + HeardOnWindow(TabChangeEvents)
    /\ tabLoading' = Without(tabLoading, target)
    /\ transitioning' = FALSE
    /\ pc' = "idle"
    /\ target' = Null
    /\ curBtn' = Null
    /\ curPanel' = Null
    /\ promise' = "fulfilled"
    /\ lastSwitch' = "completed"
    /\ boot' = "ready"
    /\ UNCHANGED <<markupVars, loadVars, urlVars, pre, menuOpen, lastReq, sideVars>>

\* The same 50 ms timer on a page whose tabChange listener calls back into the
\* controller: the try block up to and including dispatchTabChangeEvent, which
\* runs the listeners before it returns
DispatchTabChange ==
    /\ pc = "fadeIn"
    /\ btnActive' = UpdateActiveClass(btnActive, Registered, target)
    /\ panelActive' = UpdateActiveClass(panelActive, panels, target)
    /\ opacity' = UpdateOpacity(opacity, target)
    /\ UpdateTabAccessibility(btnActive')
    /\ activeTab' = target
    /\ events' = events + 1
    /\ lastEvent' = TabChangeDetail(target)
    /\ windowHeard' = windowHeard + HeardOnWindow(TabChangeEvents)
    /\ pc' = "dispatch"
    /\ UNCHANGED <<markupVars, loadVars, urlVars, tabLoading, transitioning, target,
                   curBtn, curPanel, promise, lastSwitch, pre, boot, menuOpen,
                   lastReq, sideVars>>

\* a tabChange listener calls switchToTab(b) while the event is being dispatched
ListenerSwitch(b) ==
    /\ pc = "dispatch"
    /\ b \in Registered
    /\ lastReq' = Requested("listener", b)
    /\ SwitchToTab(b)
    /\ UNCHANGED <<boot, ariaVars, menuOpen, sideVars>>

\* the listeners have returned: the finally block of switchToTab
SwitchFinally ==
    /\ pc = "dispatch"
    /\ tabLoading' = Without(tabLoading, target)
    /\ transitioning' = FALSE
    /\ pc' = "idle"
    /\ target' = Null
    /\ curBtn' = Null
    /\ curPanel' = Null
    /\ promise' = "fulfilled"
    /\ lastSwitch' = "completed"
    /\ boot' = "ready"
    /\ UNCHANGED <<markupVars, loadVars, classVars, opacity, ariaVars, urlVars,
                   activeTab, events, lastEvent, windowHeard, pre, menuOpen, lastReq,
                   sideVars>>

\* ------------------------------------------------------------------ entry points

\* variant: the trigger marked active in markup is looked up before the fragment
InitialTabMarkupFirst ==
    IF btnActive # {} THEN FirstOf(btnActive)
    ELSE IF hash # "" /\ hash \in TabIds THEN hash
    ELSE IF Len(TabOrder) > 0 THEN TabOrder[1]
    ELSE Null

\* variant: the trigger marked active in markup is never looked up
InitialTabNoMarkup ==
    IF hash # "" /\ hash \in TabIds THEN hash
    ELSE IF Len(TabOrder) > 0 THEN TabOrder[1]
    ELSE Null

\* setInitialActiveTab: the fragment's trigger, else the trigger marked active,
\* else the first trigger
InitialTab ==
    IF hash # "" /\ hash \in TabIds THEN hash
    ELSE IF btnActive # {} THEN FirstOf(btnActive)
    ELSE IF Len(TabOrder) > 0 THEN TabOrder[1]
    ELSE Null

\* new Tabs(container): init() = bindEvents, setInitialActiveTab,
\* updateTabAccessibility, handleResize
Construct ==
    /\ boot = "page"
    /\ IF InitialTab = Null THEN UNCHANGED switchVars ELSE SwitchToTab(InitialTab)
    /\ UpdateTabAccessibility(btnActive)
    /\ boot' = IF transitioning' THEN "resolving" ELSE "ready"
    /\ lastReq' = Requested("init", InitialTab)
    /\ UNCHANGED <<menuOpen, sideVars>>

\* a click on trigger b: handleTabClick, then the listener that closes the menu;
\* the browser sends no click to a trigger that is detached or disabled
HandleTabClick(b) ==
    /\ boot # "page"
    /\ b \in Registered \ disabled
    /\ historyLen < MaxHist
    /\ SwitchToTab(b)
    /\ menuOpen' = FALSE
    /\ lastReq' = Requested("click", b)
    /\ UNCHANGED <<boot, ariaVars, sideVars>>

\* handleTabKeydown with Enter or Space on trigger b
KeyActivate(b) ==
    /\ boot # "page"
    /\ b \in Registered \ disabled
    /\ historyLen < MaxHist
    /\ SwitchToTab(b)
    /\ lastReq' = Requested("key", b)
    /\ UNCHANGED <<boot, ariaVars, menuOpen, sideVars>>

\* ------------------------------------------------------------------ keyboard

\* no trigger holds focus
NoFocus == [tab |-> Null, at |-> 0, by |-> "none", n |-> 0]

\* the keys handleTabKeydown has a case for, and one it has none for
MoveKeys == {"ArrowLeft", "ArrowUp", "ArrowRight", "ArrowDown", "Home", "End"}

ActivateKeys == {"Enter", " "}

Keys == MoveKeys \cup ActivateKeys \cup {"Escape"}

\* variant: ArrowRight / ArrowDown stop at the last trigger
NextIndexNoWrap(i, n) == IF i < n - 1 THEN i + 1 ELSE i

\* focusPreviousTab(currentIndex), n = this.tabButtons.length: the index before,
\* the last one from index 0
PreviousIndex(i, n) == IF i > 0 THEN i - 1 ELSE n - 1

\* focusNextTab(currentIndex): the index after, 0 from the last one
NextIndex(i, n) == IF i < n - 1 THEN i + 1 ELSE 0

\* the index a move key pressed on the trigger at index i passes focus to
FocusIndex(key, i, n) ==
    IF key \in {"ArrowLeft", "ArrowUp"} THEN PreviousIndex(i, n)
    ELSE IF key \in {"ArrowRight", "ArrowDown"} THEN NextIndex(i, n)
    ELSE IF key = "Home" THEN 0
    ELSE n - 1

\* focus on this.tabButtons[i]: the trigger, its index, what put focus there
\* and the list length that was read
Focused(i, by) ==
    [tab |-> tabButtons[i + 1].id, at |-> i, by |-> by, n |-> Len(tabButtons)]

\* variant: the trigger that receives focus is activated with it
KeyMoveActivates(key, i) ==
    /\ historyLen < MaxHist
    /\ focus' = Focused(FocusIndex(key, i, Len(tabButtons)), key)
    /\ SwitchToTab(focus'.tab)
    /\ UNCHANGED <<boot, ariaVars, menuOpen, lastTap, siteVars, lastReq, thrown, registryVars, lifeVars>>

\* handleTabKeydown with an arrow key, Home or End on the trigger at index i
\* of this.tabButtons: focus() on another trigger
KeyMove(key, i) ==
    /\ focus' = Focused(FocusIndex(key, i, Len(tabButtons)), key)
    /\ UNCHANGED <<boot, switchVars, ariaVars, menuOpen, lastTap, siteVars, lastReq, thrown,
                   registryVars, lifeVars>>

\* a keydown event: the browser delivers it to the trigger that holds focus
HandleTabKeydown(key) ==
    /\ boot # "page"
    /\ focus.tab # Null
    /\ IF key \in ActivateKeys THEN KeyActivate(focus.tab)
       ELSE IF key \in MoveKeys THEN KeyMove(key, focus.at)
       ELSE UNCHANGED vars

\* the user puts focus on the trigger at index i (pointer, Tab key)
UserFocus(i) ==
    /\ boot # "page"
    /\ i < Len(tabButtons)
    /\ focus' = Focused(i, "user")
    /\ UNCHANGED <<boot, switchVars, ariaVars, menuOpen, lastTap, siteVars, lastReq, thrown,
                   registryVars, lifeVars>>

\* ------------------------------------------------------------------ public methods

\* switchToTabById: nothing happens when no element carries data-tab = id, and
\* the call returns normally either way
SwitchToTabById(id) ==
    /\ boot # "page"
    /\ historyLen < MaxHist
    /\ IF id \in Registered THEN SwitchToTab(id) ELSE UNCHANGED switchVars
    /\ lastReq' = Requested("api", id)
    /\ thrown' = "none"
    /\ UNCHANGED <<boot, ariaVars, menuOpen, lastTap, siteVars, focus, registryVars, lifeVars>>

\* $('.tab-btn:not([disabled])') once the triggers in off are disabled
FirstEnabled(off) == FirstOf(Registered \ off)

\* setTabEnabled(tabId, enabled): the disabled attribute is written; when the
\* active trigger is disabled, switchToTab is called on the first trigger that
\* is not disabled
SetTabEnabled(id, enabled) ==
    LET off == IF enabled THEN disabled \ {id} ELSE disabled \cup {id}
        leaves == id \in Registered /\ ~enabled /\ id \in btnActive
                    /\ FirstEnabled(off) # Null
    IN  /\ boot # "page"
        /\ historyLen < MaxHist
        /\ disabled' = IF id \in Registered THEN off ELSE disabled
        /\ IF leaves
           THEN /\ SwitchToTab(FirstEnabled(off))
                /\ lastReq' = Requested("setTabEnabled", FirstEnabled(off))
           ELSE UNCHANGED <<switchVars, lastReq>>
        /\ thrown' = "none"
        /\ UNCHANGED <<boot, ariaVars, menuOpen, lastTap, siteVars, focus, registryVars, destroyed>>

\* setTabContent(tabId, newContent): the panel's innerHTML is replaced (imgs:
\* the new html holds img[data-src]) and data-loaded is set
SetTabContent(id) ==
    /\ boot # "page"
    /\ \E imgs \in BOOLEAN :
        IF id \in panels
        THEN /\ content' = [content EXCEPT ![id] = "set"]
             /\ loaded' = loaded \cup {id}
             /\ lazyImgs' = IF imgs THEN lazyImgs \cup {id} ELSE Without(lazyImgs, id)
        ELSE UNCHANGED loadVars
    /\ thrown' = "none"
    /\ UNCHANGED <<boot, markupVars, classVars, tabLoading, opacity, chainVars,
                   urlVars, outVars, activeTab, ariaVars, menuOpen, lastTap, siteVars, lastReq, focus,
                   registryVars, lifeVars>>

\* setTabLabel(tabId, newLabel): the trigger's text, which nothing reads
SetTabLabel(id) ==
    /\ boot # "page"
    /\ thrown' = "none"
    /\ UNCHANGED <<boot, switchVars, ariaVars, menuOpen, lastTap, siteVars, lastReq, focus,
                   registryVars, lifeVars>>

\* destroy(): removeEventListener is given this.handleTabClick,
\* this.handleTabKeydown and this.handleResize, none of which is a function
\* that was registered (bindEvents registered arrow functions and a debounced
\* wrapper), so every listener stays bound
Destroy ==
    /\ boot # "page"
    /\ destroyed' = TRUE
    /\ thrown' = "none"
    /\ UNCHANGED <<boot, switchVars, ariaVars, menuOpen, lastTap, siteVars, lastReq, focus,
                   registryVars, disabled>>

\* a click on the Retry button of the inline error block of panel t: its
\* onclick calls reload() on the panel element, which has no such method
RetryClick(t) ==
    /\ boot # "page"
    /\ t \in panels
    /\ content[t] = "error"
    /\ thrown' = "TypeError"
    /\ UNCHANGED <<boot, switchVars, ariaVars, menuOpen, lastTap, siteVars, lastReq, focus,
                   registryVars, lifeVars>>

\* ------------------------------------------------------------------ addTab, removeTab

\* ids a caller passes to addTab: two the page already uses and a new one
NewTabIds == {TabOrder[1], TabOrder[2], "D"}

Positions == {"start", "end"}

\* $(selector) over a list of elements: the position of the first one carrying
\* the id, 0 for null
FirstWithId(elements, id) ==
    IF id \notin IdsOf(elements) THEN 0
    ELSE CHOOSE i \in 1..Len(elements) :
            /\ elements[i].id = id
            /\ \A j \in 1..(i - 1) : elements[j].id # id

\* the last element carrying the id: the one forEach visits last
LastWithId(elements, id) ==
    CHOOSE i \in 1..Len(elements) :
        /\ elements[i].id = id
        /\ \A j \in (i + 1)..Len(elements) : elements[j].id # id

\* element.remove()
RemoveAt(elements, i) ==
    SubSeq(elements, 1, i - 1) \o SubSeq(elements, i + 1, Len(elements))

\* classList.contains('active'): an element addTab created never got the class
IsActive(e) == e.markup /\ e.id \in btnActive

\* updateTabAccessibility over the rebuilt lists, as it leaves the attributes of
\* the elements that came with the page: each trigger from its own active
\* class, each panel from the last trigger whose data-tab selects it
RegistryAccessibility(buttons, contents) ==
    /\ ariaSelected' =
         [t \in TabIds |->
            IF FirstWithId(SelectSeq(buttons, LAMBDA e : e.markup), t) = 0
            THEN ariaSelected[t]
            ELSE IF t \in btnActive THEN "true" ELSE "false"]
    /\ tabindex' =
         [t \in TabIds |->
            IF FirstWithId(SelectSeq(buttons, LAMBDA e : e.markup), t) = 0
            THEN tabindex[t]
            ELSE IF t \in btnActive THEN "0" ELSE "-1"]
    /\ ariaHidden' =
         [t \in TabIds |->
            IF \/ FirstWithId(buttons, t) = 0
               \/ FirstWithId(contents, t) = 0
               \/ ~contents[FirstWithId(contents, t)].markup
            THEN ariaHidden[t]
            ELSE IF IsActive(buttons[LastWithId(buttons, t)]) THEN "false" ELSE "true"]

\* addTab({id, label, content, position}): a trigger and a panel are created
\* and inserted whatever ids the page holds, the lists are queried again and
\* updateTabAccessibility runs
AddTab(id, position) ==
    /\ boot # "page"
    /\ Len(tabButtons) < MaxTabs
    /\ tabButtons' = IF position = "start"
                     THEN <<Element(id, FALSE)>> \o tabButtons
                     ELSE Append(tabButtons, Element(id, FALSE))
    /\ tabContents' = Append(tabContents, Element(id, FALSE))
    /\ panels' = IdsOf(tabContents')
    /\ RegistryAccessibility(tabButtons', tabContents')
    /\ thrown' = "none"
    /\ lastCall' = [op |-> "addTab", id |-> id,
                    present |-> id \in IdsOf(tabButtons) \cup IdsOf(tabContents),
                    active |-> FALSE, others |-> Len(tabButtons) > 0]
    /\ focus' = IF focus.tab # Null /\ position = "start"
                THEN [focus EXCEPT !.at = focus.at + 1]
                ELSE focus
    /\ UNCHANGED <<boot, remote, loadVars, classVars, tabLoading, opacity, chainVars,
                   urlVars, outVars, activeTab, menuOpen, lastTap, siteVars, lastReq, lifeVars>>

\* removeTab(tabId): on the active trigger, this.tabButtons.filter is called on
\* a NodeList, which has no filter: a TypeError leaves the method before
\* anything is removed; otherwise the first trigger and the first panel with the
\* id are removed, the lists are queried again and updateTabAccessibility runs
RemoveTab(id) ==
    LET b == FirstWithId(tabButtons, id)
        c == FirstWithId(tabContents, id)
        found == b # 0 /\ c # 0
        active == found /\ IsActive(tabButtons[b])
    IN  /\ boot # "page"
        /\ lastCall' = [op |-> "removeTab", id |-> id, present |-> found,
                        active |-> active, others |-> Len(tabButtons) > 1]
        /\ IF ~found
           THEN /\ thrown' = "none"
                /\ UNCHANGED <<tabButtons, tabContents, panels, ariaVars, focus>>
           ELSE IF active
           THEN /\ thrown' = "TypeError"
                /\ UNCHANGED <<tabButtons, tabContents, panels, ariaVars, focus>>
           ELSE /\ focus' = IF focus.tab = Null \/ focus.at + 1 < b THEN focus
                            ELSE IF focus.at + 1 = b THEN NoFocus
                            ELSE [focus EXCEPT !.at = focus.at - 1]
                /\ tabButtons' = RemoveAt(tabButtons, b)
                /\ tabContents' = RemoveAt(tabContents, c)
                /\ panels' = IdsOf(tabContents')
                /\ RegistryAccessibility(tabButtons', tabContents')
                /\ thrown' = "none"
        /\ UNCHANGED <<boot, remote, loadVars, classVars, tabLoading, opacity,
                       chainVars, urlVars, outVars, activeTab, menuOpen, lastTap, siteVars, lastReq,
                       lifeVars>>

\* ------------------------------------------------------------------ the trigger menu

\* toggleTabMenu on the .tab-toggle
ToggleTabMenu ==
    /\ boot # "page"
    /\ menuOpen' = ~menuOpen
    /\ UNCHANGED <<boot, switchVars, ariaVars, lastReq, sideVars>>

\* no activation of the toggle yet
NoTap == [pointer |-> "none", wasOpen |-> FALSE]

\* the pointers that activate the toggle
Pointers == {"mouse", "touch"}

\* the events the browser sends to the toggle for one activation, in order;
\* preventDefault() in a pointerup listener does not keep the click from
\* following, and the touchend listener is passive
ActivationEvents(pointer) ==
    IF pointer = "mouse" THEN <<"pointerup", "click">>
    ELSE <<"pointerup", "touchend", "click">>

\* the event types bindEvents binds on the toggle, each to a listener that calls
\* toggleTabMenu
ToggleListeners == {"click", "pointerup", "touchend"}

\* the menu after the toggle received the events: every listener that is bound
\* to one of them ran toggleTabMenu
RECURSIVE Deliver(_, _)
Deliver(open, evs) ==
    IF evs = <<>> THEN open
    ELSE Deliver(IF Head(evs) \in ToggleListeners THEN ~open ELSE open, Tail(evs))

\* one activation of the toggle; stopPropagation() in each listener keeps the
\* events from the document's click listener
ToggleActivation(pointer) ==
    /\ boot # "page"
    /\ menuOpen' = Deliver(menuOpen, ActivationEvents(pointer))
    /\ lastTap' = [pointer |-> pointer, wasOpen |-> menuOpen]
    /\ UNCHANGED <<boot, switchVars, ariaVars, lastReq, focus, thrown, registryVars,
                   lifeVars, siteVars>>

\* closeTabMenu, called on an open menu
CloseTabMenu ==
    /\ boot # "page"
    /\ menuOpen
    /\ menuOpen' = FALSE
    /\ UNCHANGED <<boot, switchVars, ariaVars, lastReq, sideVars>>

\* handleOutsideClick: closeTabMenu when isMobile() and the click is inside no
\* .tab-wrapper
HandleOutsideClick ==
    /\ boot # "page"
    /\ \E mobile \in BOOLEAN, isClickInside \in BOOLEAN :
        menuOpen' = IF mobile /\ ~isClickInside THEN FALSE ELSE menuOpen
    /\ UNCHANGED <<boot, switchVars, ariaVars, lastReq, sideVars>>

\* variant: the resize handler resets the controller's busy flag
HandleResizeResets ==
    /\ boot # "page"
    /\ \E isMobileView \in BOOLEAN :
        menuOpen' = IF isMobileView THEN FALSE ELSE menuOpen
    /\ transitioning' = FALSE
    /\ UNCHANGED <<boot, markupVars, loadVars, classVars, tabLoading, opacity, pc,
                   target, curBtn, curPanel, urlVars, outVars, activeTab, ariaVars,
                   lastReq, sideVars>>

\* handleResize, from the debounced resize listener or the orientationchange
\* timer: on a narrow window closeTabMenu when the menu is open; the container's
\* tabs-mobile / tabs-desktop class and the panels' heights are layout only
HandleResize ==
    /\ boot # "page"
    /\ \E isMobileView \in BOOLEAN :
        menuOpen' = IF isMobileView THEN FALSE ELSE menuOpen
    /\ UNCHANGED <<boot, switchVars, ariaVars, lastReq, sideVars>>

\* ------------------------------------------------------------------ counter animation

\* the largest magnitude of a number a counter starts from or counts to
MaxCount == 3

\* numbers a counter element shows at first, and targets it is given
Counts == (0 - MaxCount)..MaxCount

\* the numbers an element can show before the animation is cut off
Shown == (0 - 2 * MaxCount)..(2 * MaxCount)

\* no counter animation has been started
NoCounter == [start |-> 0, target |-> 0, increment |-> 0, current |-> 0,
              text |-> 0, timer |-> "none"]

\* const increment = target > start ? 1 : -1
CounterIncrement(start, goal) == IF goal > start THEN 1 ELSE 0 - 1

\* animateCounter(element, target) / animateNumber(element, target) on an element
\* whose text parses to the integer text: start, increment and the interval
AnimateCounter(text, goal) ==
    /\ counter.timer = "none"
    /\ counter' = [start |-> text, target |-> goal,
                   increment |-> CounterIncrement(text, goal),
                   current |-> text, text |-> text, timer |-> "running"]
    /\ UNCHANGED <<tabsVars, gallery, eventList, programNav, navigation, debounced>>

\* initEventCounters on one .stat-number: the target is parsed from the text
\* that animateCounter parses the start from
InitEventCounters(text) == AnimateCounter(text, text)

\* the interval callback: step, write the text, clear the interval at the target
CounterTick ==
    /\ counter.timer = "running"
    /\ counter.current + counter.increment \in Shown
    /\ LET current == counter.current + counter.increment
       IN  counter' = [counter EXCEPT
                          !.current = current,
                          !.text = current,
                          !.timer = IF current = counter.target THEN "cleared"
                                    ELSE "running"]
    /\ UNCHANGED <<tabsVars, gallery, eventList, programNav, navigation, debounced>>

\* ------------------------------------------------------------------ gallery

\* the most .gallery-item elements of a page
MaxItems == 3

\* this.visibleItems = 9
VisibleItems == 9

\* data-category of the items
Categories == {"sports", "academics"}

\* data-filter of the filter buttons
GalleryFilters == {"all"} \cup Categories

\* the galleries of a page: the items' categories in document order
Galleries == UNION {[1..n -> Categories] : n \in 1..MaxItems}

\* Gallery has not been constructed
NoGallery == [items |-> <<>>, currentFilter |-> "none", images |-> <<>>,
              currentImageIndex |-> 0, displayed |-> {}, active |-> FALSE,
              src |-> 0, clicked |-> 0]

\* array.filter over the items from position i on: the positions, in order, of
\* the items whose data-category is the filter
RECURSIVE InCategory(_, _, _)
InCategory(items, filter, i) ==
    IF i > Len(items) THEN <<>>
    ELSE IF items[i] = filter THEN <<i>> \o InCategory(items, filter, i + 1)
    ELSE InCategory(items, filter, i + 1)

\* filterItems: itemsToShow, by position in this.galleryItems
ItemsToShow(items, filter) ==
    IF filter = "all" THEN [i \in 1..Len(items) |-> i]
    ELSE InCategory(items, filter, 1)

\* array.slice(0, n)
Slice(seq, n) == SubSeq(seq, 1, IF n < Len(seq) THEN n ELSE Len(seq))

\* the elements of a sequence
Range(seq) == {seq[i] : i \in DOMAIN seq}

\* new Gallery(): initLightbox collects every item, initFiltering calls
\* filterItems('all')
GalleryConstruct(items) ==
    /\ gallery = NoGallery
    /\ gallery' = [items |-> items, currentFilter |-> "all",
                   images |-> ItemsToShow(items, "all"),
                   currentImageIndex |-> 0,
                   displayed |-> Range(Slice(ItemsToShow(items, "all"), VisibleItems)),
                   active |-> FALSE, src |-> 0, clicked |-> 0]
    /\ UNCHANGED <<tabsVars, counter, eventList, programNav, navigation, debounced>>

\* handleFilterClick with the lightbox closed: filterItems displays the first
\* visibleItems matches and rebuilds this.images from all the matches
GalleryFilterClick(filter) ==
    /\ gallery # NoGallery
    /\ ~gallery.active
    /\ gallery' = [gallery EXCEPT
                      !.currentFilter = filter,
                      !.images = ItemsToShow(gallery.items, filter),
                      !.displayed =
                          Range(Slice(ItemsToShow(gallery.items, filter), VisibleItems)),
                      !.clicked = 0]
    /\ UNCHANGED <<tabsVars, counter, eventList, programNav, navigation, debounced>>

\* bindEvents: the index the click listener of an item passes to openLightbox
OpenIndex(images, item) == item - 1

\* a click on a displayed item: openLightbox(index) with the index bound at
\* construction, which returns when this.images has no such index
GalleryItemClick(item) ==
    /\ item \in gallery.displayed
    /\ ~gallery.active
    /\ LET index == OpenIndex(gallery.images, item)
       IN  IF index < 0 \/ index >= Len(gallery.images)
           THEN gallery' = [gallery EXCEPT !.clicked = item]
           ELSE gallery' = [gallery EXCEPT
                               !.clicked = item,
                               !.currentImageIndex = index,
                               !.src = gallery.images[index + 1],
                               !.active = TRUE]
    /\ UNCHANGED <<tabsVars, counter, eventList, programNav, navigation, debounced>>

\* showNextImage and updateLightboxImage, the image loaded
ShowNextImage ==
    /\ gallery.active
    /\ LET index == IF gallery.currentImageIndex < Len(gallery.images) - 1
                    THEN gallery.currentImageIndex + 1 ELSE 0
       IN  gallery' = [gallery EXCEPT !.currentImageIndex = index,
                                      !.src = gallery.images[index + 1],
                                      !.clicked = 0]
    /\ UNCHANGED <<tabsVars, counter, eventList, programNav, navigation, debounced>>

\* showPreviousImage and updateLightboxImage, the image loaded
ShowPreviousImage ==
    /\ gallery.active
    /\ LET index == IF gallery.currentImageIndex > 0
                    THEN gallery.currentImageIndex - 1
                    ELSE Len(gallery.images) - 1
       IN  gallery' = [gallery EXCEPT !.currentImageIndex = index,
                                      !.src = gallery.images[index + 1],
                                      !.clicked = 0]
    /\ UNCHANGED <<tabsVars, counter, eventList, programNav, navigation, debounced>>

\* closeLightbox
CloseLightbox ==
    /\ gallery.active
    /\ gallery' = [gallery EXCEPT !.active = FALSE, !.clicked = 0]
    /\ UNCHANGED <<tabsVars, counter, eventList, programNav, navigation, debounced>>

\* ------------------------------------------------------------------ events list

\* the most .event-card elements of a page
MaxCards == 8

\* the most cards a visitor asks for with the load-more button
MaxVisible == 18

\* this.visibleEvents = 6, and the step of loadMoreEvents
VisibleEvents == 6

\* data-filter of the filter buttons of the events page
EventFilters == {"all", "upcoming", "past"} \cup Categories

\* the card lists of a page, in document order: n cards, the first k of one
\* category and the others of the other, the first j upcoming and the others
\* with class past
CardLists ==
    {[i \in 1..t[1] |-> [category |-> IF i <= t[2] THEN "sports" ELSE "academics",
                          past |-> i > t[3]]] :
        t \in {u \in (0..MaxCards) \X (0..MaxCards) \X (0..MaxCards) :
                    u[2] <= u[1] /\ u[3] <= u[1]}}

\* Events has not been constructed
NoEvents == [cards |-> <<>>, currentFilter |-> "none", visibleEvents |-> 0,
             displayed |-> {}, loadMore |-> "absent"]

\* the test filterEvents and getFilteredEvents apply to a card
Passes(card, filter) ==
    IF filter = "all" THEN TRUE
    ELSE IF filter = "upcoming" THEN ~card.past
    ELSE IF filter = "past" THEN card.past
    ELSE card.category = filter

\* allEvents.filter from position i on: the positions, in order, of the cards
\* that pass
RECURSIVE Filtered(_, _, _)
Filtered(cards, filter, i) ==
    IF i > Len(cards) THEN <<>>
    ELSE IF Passes(cards[i], filter) THEN <<i>> \o Filtered(cards, filter, i + 1)
    ELSE Filtered(cards, filter, i + 1)

\* filterEvents: every card hidden, then the first visibleEvents of eventsToShow
\* displayed
FilterEvents(cards, filter, visibleEvents) ==
    Range(Slice(Filtered(cards, filter, 1), visibleEvents))

\* updateLoadMoreButton: style.display of the button
LoadMoreDisplay(cards, filter, visibleEvents) ==
    IF visibleEvents >= Len(Filtered(cards, filter, 1)) THEN "none" ELSE "block"

\* new Events(): initFiltering displays the first cards; the button is as the
\* page's markup and style sheet show it
EventsConstruct(cards) ==
    /\ eventList = NoEvents
    /\ eventList' = [cards |-> cards, currentFilter |-> "all",
                     visibleEvents |-> VisibleEvents,
                     displayed |-> FilterEvents(cards, "all", VisibleEvents),
                     loadMore |-> "markup"]
    /\ UNCHANGED <<tabsVars, counter, gallery, programNav, navigation, debounced>>

\* handleFilterClick: filterEvents runs with the count the visitor had reached,
\* then the count is reset and the button updated
EventsFilterClick(filter) ==
    /\ eventList # NoEvents
    /\ eventList' = [eventList EXCEPT
                        !.currentFilter = filter,
                        !.displayed = FilterEvents(eventList.cards, filter,
                                                   eventList.visibleEvents),
                        !.visibleEvents = VisibleEvents,
                        !.loadMore = LoadMoreDisplay(eventList.cards, filter,
                                                     VisibleEvents)]
    /\ UNCHANGED <<tabsVars, counter, gallery, programNav, navigation, debounced>>

\* a click on the load-more button while it is shown: loadMoreEvents
LoadMoreEvents ==
    /\ eventList.loadMore \in {"markup", "block"}
    /\ eventList.visibleEvents + VisibleEvents <= MaxVisible
    /\ LET visibleEvents == eventList.visibleEvents + VisibleEvents
       IN  eventList' = [eventList EXCEPT
                            !.visibleEvents = visibleEvents,
                            !.displayed = FilterEvents(eventList.cards,
                                                       eventList.currentFilter,
                                                       visibleEvents),
                            !.loadMore = LoadMoreDisplay(eventList.cards,
                                                         eventList.currentFilter,
                                                         visibleEvents)]
    /\ UNCHANGED <<tabsVars, counter, gallery, programNav, navigation, debounced>>

\* ------------------------------------------------------------------ program navigation

\* the most .program-nav__link elements, and .program-section elements, of a page
MaxLinks == 2

\* the most times ProgramNavigation is constructed on a page
MaxConstructions == 3

\* the most clicks on a program link
MaxClicks == 3

\* no ProgramNavigation has been constructed on the page
NoProgramNav == [links |-> 0, sections |-> 0, constructions |-> 0,
                 initialized |-> FALSE, clickListeners |-> 0,
                 hashchangeListeners |-> 0, clicks |-> 0, switched |-> 0,
                 hashchanges |-> 0, hashSwitched |-> 0]

\* variant: the constructor does not look at the flag
AlreadyInitializedNever(flag) == FALSE

\* if (window.__program_nav_initialized__) return
AlreadyInitialized(flag) == flag

\* new ProgramNavigation() on a page with the given numbers of links and
\* sections, by the component's own DOMContentLoaded handler or by the
\* application: the flag, then init and bindEvents, which adds one click
\* listener to every link and one hashchange listener to window
ConstructProgramNavigation(links, sections) ==
    /\ programNav.constructions < MaxConstructions
    /\ programNav.constructions > 0
          => (links = programNav.links /\ sections = programNav.sections)
    /\ LET bind == /\ ~AlreadyInitialized(programNav.initialized)
                   /\ links # 0
                   /\ sections # 0
       IN  programNav' =
             [programNav EXCEPT
                !.links = links,
                !.sections = sections,
                !.constructions = programNav.constructions + 1,
                !.initialized = TRUE,
                !.clickListeners = IF bind THEN programNav.clickListeners + 1
                                   ELSE programNav.clickListeners,
                !.hashchangeListeners = IF bind THEN programNav.hashchangeListeners + 1
                                        ELSE programNav.hashchangeListeners]
    /\ UNCHANGED <<tabsVars, counter, gallery, eventList, navigation, debounced>>

\* one click on a program link: every click listener of the link runs
\* handleProgramClick, which calls switchProgram once on either branch
ProgramLinkClick ==
    /\ programNav.constructions > 0
    /\ programNav.links > 0
    /\ programNav.clicks < MaxClicks
    /\ programNav' = [programNav EXCEPT
                         !.clicks = programNav.clicks + 1,
                         !.switched = programNav.switched + programNav.clickListeners]
    /\ UNCHANGED <<tabsVars, counter, gallery, eventList, navigation, debounced>>

\* a hashchange event whose fragment names a program, while no click is being
\* handled: every hashchange listener asks for an animation frame, in which it
\* runs switchProgram once
ProgramHashChange ==
    /\ programNav.constructions > 0
    /\ programNav.hashchanges < MaxClicks
    /\ programNav' = [programNav EXCEPT
                         !.hashchanges = programNav.hashchanges + 1,
                         !.hashSwitched = programNav.hashSwitched
                                            + programNav.hashchangeListeners]
    /\ UNCHANGED <<tabsVars, counter, gallery, eventList, navigation, debounced>>

\* ------------------------------------------------------------------ site navigation

\* ids of the page's sections that a .nav__link points to
NavSections == {"about", "programs", "contact"}

\* Navigation has not been constructed
NoNavigation == [constructed |-> FALSE, menuClass |-> FALSE, menu |-> FALSE,
                 toggle |-> FALSE, noScroll |-> FALSE, icon |-> "fa-bars",
                 scrolled |-> FALSE, activeLink |-> Null, mobile |-> FALSE]

\* new Navigation() on a page whose #nav-menu does or does not carry the class
\* nav__menu, in a narrow or a wide window: handleScroll at the top of the
\* page, setActiveLink with no link for the page
NavigationConstruct(menuClass, mobile) ==
    /\ ~navigation.constructed
    /\ navigation' = [NoNavigation EXCEPT !.constructed = TRUE,
                                          !.menuClass = menuClass,
                                          !.mobile = mobile]
    /\ UNCHANGED <<tabsVars, counter, gallery, eventList, programNav, debounced>>

\* toggleMobileMenu, from the click or the touchend listener of #nav-toggle:
\* three classList.toggle calls, then the icon from the menu's class
ToggleMobileMenu ==
    /\ navigation.constructed
    /\ navigation' = [navigation EXCEPT
                         !.menu = ~navigation.menu,
                         !.toggle = ~navigation.toggle,
                         !.noScroll = ~navigation.noScroll,
                         !.icon = IF ~navigation.menu THEN "fa-times" ELSE "fa-bars"]
    /\ UNCHANGED <<tabsVars, counter, gallery, eventList, programNav, debounced>>

\* closeMobileMenu as it leaves the classes
Closed(nav) ==
    [nav EXCEPT !.menu = FALSE, !.toggle = FALSE, !.noScroll = FALSE,
                !.icon = "fa-bars"]

\* a click on a .nav__link: closeMobileMenu
CloseMobileMenu ==
    /\ navigation.constructed
    /\ navigation' = Closed(navigation)
    /\ UNCHANGED <<tabsVars, counter, gallery, eventList, programNav, debounced>>

\* handleOutsideClick for a click outside .nav
NavOutsideClick ==
    /\ navigation.constructed
    /\ navigation' = IF navigation.menu THEN Closed(navigation) ELSE navigation
    /\ UNCHANGED <<tabsVars, counter, gallery, eventList, programNav, debounced>>

\* the window is resized to a narrow or a wide one: handleResize closes the
\* menu when isMobile() is false and the menu is open
NavHandleResize(mobile) ==
    /\ navigation.constructed
    /\ navigation' = [(IF ~mobile /\ navigation.menu THEN Closed(navigation)
                       ELSE navigation) EXCEPT !.mobile = mobile]
    /\ UNCHANGED <<tabsVars, counter, gallery, eventList, programNav, debounced>>

\* handleScroll: the header's scrolled class from scrollY > 100, and the link of
\* the section the scroll position lies in, if it lies in one
NavHandleScroll(scrolled, section) ==
    /\ navigation.constructed
    /\ navigation' = [navigation EXCEPT
                         !.scrolled = scrolled,
                         !.activeLink = IF section = Null THEN navigation.activeLink
                                        ELSE section]
    /\ UNCHANGED <<tabsVars, counter, gallery, eventList, programNav, debounced>>

\* the application's keydown listener on Escape outside a form field:
\* handleEscapeKey removes active from the element matching .nav__menu.active
HandleEscapeKey ==
    /\ navigation.constructed
    /\ navigation' = IF navigation.menuClass /\ navigation.menu
                     THEN [navigation EXCEPT !.menu = FALSE]
                     ELSE navigation
    /\ UNCHANGED <<tabsVars, counter, gallery, eventList, programNav, debounced>>

\* ------------------------------------------------------------------ debounce

\* the longest wait, in ticks of the clock
MaxWait == 2

\* the most calls of the wrapped function
MaxCalls == 3

\* arguments the wrapped function is called with
Args == {"a", "b"}

\* debounce has not been called
NoDebounce == [wrapped |-> FALSE, wait |-> 0, timeout |-> 0, timers |-> {},
               calls |-> 0, superseded |-> 0, args |-> Null, quiet |-> 0,
               runs |-> 0, ranWith |-> Null, ranSinceCall |-> 0]

\* variant: clearTimeout cancels nothing
ClearTimeoutKeeps(timers, id) == timers

\* clearTimeout(id): the timer with that id, if it is still pending, is cancelled
ClearTimeout(timers, id) == {t \in timers : t.id # id}

\* debounce(func, wait): the closure with timeout undefined
DebounceWrap(wait) ==
    /\ ~debounced.wrapped
    /\ debounced' = [NoDebounce EXCEPT !.wrapped = TRUE, !.wait = wait]
    /\ UNCHANGED <<tabsVars, counter, gallery, eventList, programNav, navigation>>

\* executedFunction(...args): clearTimeout(timeout), then
\* timeout = setTimeout(later, wait) with later holding the arguments
DebouncedCall(args) ==
    /\ debounced.wrapped
    /\ debounced.calls < MaxCalls
    /\ LET id == debounced.calls + 1
           kept == ClearTimeout(debounced.timers, debounced.timeout)
       IN  debounced' =
             [debounced EXCEPT
                !.timers = kept \cup {[id |-> id, left |-> debounced.wait,
                                       args |-> args]},
                !.timeout = id,
                !.calls = debounced.calls + 1,
                !.superseded = IF debounced.timers # {}
                               THEN debounced.superseded + 1
                               ELSE debounced.superseded,
                !.args = args,
                !.quiet = 0,
                !.ranSinceCall = 0]
    /\ UNCHANGED <<tabsVars, counter, gallery, eventList, programNav, navigation>>

\* one tick of the clock passes while a timer is pending and none is due
DebounceTick ==
    /\ debounced.timers # {}
    /\ \A t \in debounced.timers : t.left > 0
    /\ debounced' = [debounced EXCEPT
                        !.timers = {[t EXCEPT !.left = t.left - 1] :
                                       t \in debounced.timers},
                        !.quiet = debounced.quiet + 1]
    /\ UNCHANGED <<tabsVars, counter, gallery, eventList, programNav, navigation>>

\* a timer that is due runs later: clearTimeout(timeout), then func(...args)
DebounceLater ==
    /\ \E t \in debounced.timers :
          /\ t.left = 0
          /\ debounced' =
                [debounced EXCEPT
                   !.timers = ClearTimeout(debounced.timers \ {t}, debounced.timeout),
                   !.runs = debounced.runs + 1,
                   !.ranWith = t.args,
                   !.ranSinceCall = debounced.ranSinceCall + 1]
    /\ UNCHANGED <<tabsVars, counter, gallery, eventList, programNav, navigation>>

\* ------------------------------------------------------------------ specification

Unset == [t \in TabIds |-> "unset"]

\* no tabChange event has been dispatched yet
NoEvent == [tabId |-> Null, tabElement |-> Null, buttonElement |-> Null]

\* $$('.tab-btn') and $$('.tab-content') on the page as it was served
MarkupButtons == [i \in 1..Len(TabOrder) |-> Element(TabOrder[i], TRUE)]

MarkupContents(present) == SelectSeq(MarkupButtons, LAMBDA e : e.id \in present)

NoCall == [op |-> "none", id |-> Null, present |-> FALSE, active |-> FALSE,
           others |-> FALSE]

\* The page before new Tabs(container): a container with three triggers, markup
\* that marks at most one trigger active (and its panel with it), any fragment.
Init ==
    /\ boot = "page"
    /\ hash \in Fragments
    /\ historyLen = 0
    /\ \E orphans \in SUBSET OrphanCandidates : panels = TabIds \ orphans
    /\ remote \in SUBSET (RemoteCandidates \cap panels)
    /\ loaded = {}
    /\ content = [t \in TabIds |-> "static"]
    /\ lazyImgs \in SUBSET (LazyCandidates \cap panels)
    /\ btnActive \in {{}} \cup {{t} : t \in TabIds}
    /\ panelActive = btnActive \cap panels
    /\ tabLoading = {}
    /\ opacity = Unset
    /\ ariaSelected = Unset
    /\ tabindex = Unset
    /\ ariaHidden = Unset
    /\ activeTab = Null
    /\ transitioning = FALSE
    /\ pc = "idle"
    /\ target = Null
    /\ curBtn = Null
    /\ curPanel = Null
    /\ menuOpen = FALSE
    /\ lastTap = NoTap
    /\ counter = NoCounter
    /\ gallery = NoGallery
    /\ eventList = NoEvents
    /\ programNav = NoProgramNav
    /\ navigation = NoNavigation
    /\ debounced = NoDebounce
    /\ events = 0
    /\ windowHeard = 0
    /\ lastEvent = NoEvent
    /\ promise = "none"
    /\ lastReq = [via |-> "none", tab |-> Null, busy |-> FALSE, active |-> FALSE]
    /\ lastSwitch = "none"
    /\ pre = [target |-> Null, hash |-> hash, hist |-> 0, activeTab |-> Null,
              btnActive |-> btnActive, panelActive |-> panelActive, events |-> 0,
              loaded |-> {}, retry |-> FALSE]
    /\ focus = NoFocus
    /\ thrown = "none"
    /\ tabButtons = MarkupButtons
    /\ tabContents = MarkupContents(panels)
    /\ lastCall = NoCall
    /\ disabled = {}
    /\ destroyed = FALSE

Next ==
    \/ Construct
    \/ \E b \in TabIds : HandleTabClick(b)
    \/ \E b \in TabIds : KeyActivate(b)
    \/ \E id \in TabIds \cup {"zz"} : SwitchToTabById(id)
    \/ FetchSettled
    \/ ImagesSettled
    \/ FadeOutTimer
    \/ FadeInTimer
    \/ ToggleTabMenu
    \/ CloseTabMenu
    \/ HandleOutsideClick
    \/ HandleResize

Spec == Init /\ [][Next]_vars

\* One page on which every outcome of a switch can happen (a panel with lazy
\* images, a panel loaded on demand, a trigger without panel), with the fetch,
\* the image loads and the two timers each settling once started.
LiveInit ==
    /\ Init
    /\ hash = ""
    /\ btnActive = {}
    /\ panels = TabIds \ OrphanCandidates
    /\ remote = RemoteCandidates \cap panels
    /\ lazyImgs = LazyCandidates

LiveSpec ==
    /\ LiveInit
    /\ [][Next]_vars
    /\ WF_vars(FetchSettled)
    /\ WF_vars(ImagesSettled)
    /\ WF_vars(FadeOutTimer)
    /\ WF_vars(FadeInTimer)

\* One page for the public methods: no fragment, no trigger marked active,
\* every panel present, the second panel loaded on demand.
ApiInit ==
    /\ Init
    /\ hash = ""
    /\ btnActive = {}
    /\ panels = TabIds
    /\ remote = {TabOrder[2]}
    /\ lazyImgs = {}

\* triggers a caller disables and enables again
ToggledTabs == {TabOrder[1], TabOrder[2]}

\* every entry point that can call switchToTab, in every interleaving with the
\* switch chain
ApiNext ==
    \/ Construct
    \/ \E b \in TabIds : HandleTabClick(b)
    \/ \E b \in TabIds : KeyActivate(b)
    \/ \E id \in TabIds \cup {"zz"} : SwitchToTabById(id)
    \/ \E id \in ToggledTabs, enabled \in BOOLEAN : SetTabEnabled(id, enabled)
    \/ \E id \in TabIds : RemoveTab(id)
    \/ FetchSettled
    \/ ImagesSettled
    \/ FadeOutTimer
    \/ FadeInTimer

ApiSpec == ApiInit /\ [][ApiNext]_vars

\* a page with a tabChange listener that asks for a switch: clicks and keys
\* arrive between the steps of the chain, the listener inside the dispatch
ListenerNext ==
    \/ Construct
    \/ pc # "dispatch" /\ \E b \in TabIds : HandleTabClick(b)
    \/ pc # "dispatch" /\ \E b \in TabIds : KeyActivate(b)
    \/ FetchSettled
    \/ ImagesSettled
    \/ FadeOutTimer
    \/ DispatchTabChange
    \/ \E b \in TabIds : ListenerSwitch(b)
    \/ SwitchFinally

ListenerSpec == ApiInit /\ [][ListenerNext]_vars

\* the trigger menu in use: activations of the toggle between clicks on
\* triggers, clicks elsewhere, resizes and the steps of the switch chain
TapNext ==
    \/ Construct
    \/ \E b \in TabIds : HandleTabClick(b)
    \/ \E pointer \in Pointers : ToggleActivation(pointer)
    \/ HandleOutsideClick
    \/ HandleResize
    \/ FetchSettled
    \/ ImagesSettled
    \/ FadeOutTimer
    \/ FadeInTimer

TapSpec == ApiInit /\ [][TapNext]_vars

\* one counter element: an animation is started on it and its interval runs
CounterNext ==
    \/ \E text \in Counts, goal \in Counts : AnimateCounter(text, goal)
    \/ \E text \in Counts : InitEventCounters(text)
    \/ CounterTick

\* the interval keeps firing for as long as it is not cleared
CounterSpec == ApiInit /\ [][CounterNext]_vars /\ WF_vars(CounterTick)

\* a gallery page in use
GalleryNext ==
    \/ \E items \in Galleries : GalleryConstruct(items)
    \/ \E filter \in GalleryFilters : GalleryFilterClick(filter)
    \/ \E item \in 1..MaxItems : GalleryItemClick(item)
    \/ ShowNextImage
    \/ ShowPreviousImage
    \/ CloseLightbox

GallerySpec == ApiInit /\ [][GalleryNext]_vars

\* an events page in use
EventsNext ==
    \/ \E cards \in CardLists : EventsConstruct(cards)
    \/ \E filter \in EventFilters : EventsFilterClick(filter)
    \/ LoadMoreEvents

EventsSpec == ApiInit /\ [][EventsNext]_vars

\* a page that loads the program navigation module
ProgramNavNext ==
    \/ \E links \in 0..MaxLinks, sections \in 0..MaxLinks :
          ConstructProgramNavigation(links, sections)
    \/ ProgramLinkClick
    \/ ProgramHashChange

ProgramNavSpec == ApiInit /\ [][ProgramNavNext]_vars

\* the site navigation in use
NavigationNext ==
    \/ \E menuClass \in BOOLEAN, mobile \in BOOLEAN :
          NavigationConstruct(menuClass, mobile)
    \/ ToggleMobileMenu
    \/ CloseMobileMenu
    \/ NavOutsideClick
    \/ \E mobile \in BOOLEAN : NavHandleResize(mobile)
    \/ \E scrolled \in BOOLEAN, section \in NavSections \cup {Null} :
          NavHandleScroll(scrolled, section)
    \/ HandleEscapeKey

NavigationSpec == ApiInit /\ [][NavigationNext]_vars

\* a debounced function, its callers and the clock
DebounceNext ==
    \/ \E wait \in 0..MaxWait : DebounceWrap(wait)
    \/ \E args \in Args : DebouncedCall(args)
    \/ DebounceTick
    \/ DebounceLater

DebounceSpec == ApiInit /\ [][DebounceNext]_vars

\* the content and label setters, the Retry button and destroy() next to the
\* handlers bound at construction
MethodNext ==
    \/ Construct
    \/ \E b \in TabIds : HandleTabClick(b)
    \/ \E b \in TabIds : KeyActivate(b)
    \/ \E id \in TabIds : SetTabContent(id)
    \/ \E id \in TabIds : SetTabLabel(id)
    \/ \E t \in TabIds : RetryClick(t)
    \/ Destroy
    \/ ToggleTabMenu
    \/ HandleResize
    \/ FetchSettled
    \/ ImagesSettled
    \/ FadeOutTimer
    \/ FadeInTimer

MethodSpec == ApiInit /\ [][MethodNext]_vars

\* Keyboard use of one page: no fragment, no trigger marked active, every
\* panel present, the second panel loaded on demand. Key events reach the
\* trigger that holds focus.
KeyInit ==
    /\ Init
    /\ hash = ""
    /\ btnActive = {}
    /\ panels = TabIds
    /\ remote = {TabOrder[2]}
    /\ lazyImgs = {}

KeyNext ==
    \/ Construct
    \/ \E i \in 0..(MaxTabs - 1) : UserFocus(i)
    \/ \E key \in Keys : HandleTabKeydown(key)
    \/ \E b \in TabIds : HandleTabClick(b)
    \/ FetchSettled
    \/ ImagesSettled
    \/ FadeOutTimer
    \/ FadeInTimer

KeySpec == KeyInit /\ [][KeyNext]_vars

\* addTab and removeTab on one page: the first trigger marked active in markup
\* (so construction starts no switch), every panel present and static.
RegistryInit ==
    /\ Init
    /\ hash = ""
    /\ btnActive = {TabOrder[1]}
    /\ panels = TabIds
    /\ remote = {}
    /\ lazyImgs = {}

RegistryNext ==
    \/ Construct
    \/ \E id \in NewTabIds, position \in Positions : AddTab(id, position)
    \/ \E id \in TabIds \cup NewTabIds : RemoveTab(id)

RegistrySpec == RegistryInit /\ [][RegistryNext]_vars

\* focus movement on a page whose trigger list grows and shrinks: a tab with a
\* new id is added at either end, tabs are removed
FocusNext ==
    \/ Construct
    \/ \E i \in 0..(MaxTabs - 1) : UserFocus(i)
    \/ \E key \in MoveKeys : HandleTabKeydown(key)
    \/ \E position \in Positions : AddTab("D", position)
    \/ \E id \in TabIds \cup {"D"} : RemoveTab(id)

FocusSpec == RegistryInit /\ [][FocusNext]_vars

\* ------------------------------------------------------------------ properties

\* a step that is a switch request (a call of switchToTab from any entry point)
IsRequest == lastReq' # lastReq

LoadFailed == lastSwitch \in {"fetchFailed", "imageFailed"}

\* C1: a switch request issued while a switch is in progress changes nothing of
\* what a switch writes (the state is that after the first request alone), and
\* the switch in flight ends with its own target active.
C1_RequestWhileBusyDropped ==
    [][/\ (IsRequest /\ transitioning) => UNCHANGED <<switchVars, ariaVars, boot>>
       /\ (pc = "fadeIn" /\ pc' = "idle") => activeTab' = pre.target]_vars

\* a request for another, inactive tab met the fetch of the switch in flight
C1_Witness ==
    /\ pc = "fetch"
    /\ lastReq.busy
    /\ ~lastReq.active
    /\ lastReq.tab \in TabIds \ {target}

\* C2: whenever the controller is Idle, at most one trigger and at most one
\* panel carry the active class.
C2_AtMostOneActiveWhenIdle ==
    ~transitioning => Cardinality(btnActive) <= 1 /\ Cardinality(panelActive) <= 1

\* Idle after two completed switches and a failed one
C2_Witness ==
    /\ ~transitioning
    /\ events >= 2
    /\ LoadFailed
    /\ Cardinality(btnActive) = 1

\* C3: a request for the tab whose trigger is active, met while Idle, changes
\* nothing: no fetch or timer starts (pc), fragment, history, notifications,
\* activeTab, transitioning and the load state stay as they were.
C3_ActiveTabRequestIsNoOp ==
    [][(IsRequest /\ ~transitioning /\ lastReq'.tab \in btnActive)
          => UNCHANGED switchVars]_vars

\* after a completed switch, a request for the now active tab was made while Idle
C3_Witness ==
    /\ lastReq.active
    /\ ~lastReq.busy
    /\ lastReq.via \in {"click", "key", "api"}
    /\ lastReq.tab = activeTab
    /\ lastSwitch = "completed"

\* C4: once a switch has completed (activeTab is set), exactly the trigger of
\* activeTab is selected with tabindex 0, every other trigger is unselected
\* with tabindex -1, the panel of activeTab is the one panel not hidden and
\* every other panel is hidden.
C4_AccessibilitySync ==
    activeTab # Null =>
        /\ \A t \in TabIds :
            /\ ariaSelected[t] = (IF t = activeTab THEN "true" ELSE "false")
            /\ tabindex[t] = (IF t = activeTab THEN "0" ELSE "-1")
        /\ {t \in TabIds : ariaHidden[t] = "false"} = {activeTab}
        /\ \A t \in panels \ {activeTab} : ariaHidden[t] = "true"

\* two switches have completed
C4_Witness ==
    /\ events >= 2
    /\ ~transitioning
    /\ ariaSelected[activeTab] = "true"
    /\ ariaHidden[activeTab] = "false"

\* C5: after a completed switch the address fragment is activeTab.
C5_FragmentIsActiveTab == lastSwitch = "completed" => hash = activeTab

\* a programmatic request was accepted and completed, moving the fragment
C5_Witness ==
    /\ lastSwitch = "completed"
    /\ lastReq.via = "api"
    /\ ~lastReq.busy
    /\ ~lastReq.active
    /\ lastReq.tab = activeTab
    /\ pre.hash # hash

\* C6: a fetch is issued only for a tab that is not Loaded (data-loaded absent),
\* and data-loaded, once set, stays: a Loaded tab is never fetched again.
C6_LoadedNeverRefetched ==
    [][/\ (pc # "fetch" /\ pc' = "fetch") => target' \notin loaded
       /\ loaded \subseteq loaded']_vars

\* a remote tab that was already Loaded has been activated again
C6_Witness ==
    /\ lastSwitch = "completed"
    /\ pre.target \in remote
    /\ pre.target \in pre.loaded
    /\ activeTab = pre.target

\* C7: once a switch whose load failed is over, activeTab, the active flags,
\* the fragment, the history and the notifications are as before the request.
C7_FailedSwitchLeavesNoTrace ==
    LoadFailed =>
        /\ activeTab = pre.activeTab
        /\ btnActive = pre.btnActive
        /\ panelActive = pre.panelActive
        /\ events = pre.events
        /\ hash = pre.hash
        /\ historyLen = pre.hist

\* C8: the promise a caller holds for a switch whose load failed is rejected.
C8_LoadErrorReachesCaller == LoadFailed => promise = "rejected"

StartFragment == IF boot = "page" THEN hash ELSE pre.hash

\* the step that ends the initial resolution, started with a fragment naming a
\* trigger that has its panel
BootEndsWithKnownFragment ==
    /\ boot # "ready"
    /\ boot' = "ready"
    /\ StartFragment \in TabIds \cap panels

MarkupActive == IF boot = "page" THEN btnActive ELSE pre.btnActive

\* the tab the resolution order names when the fragment names no trigger
DefaultTab == IF MarkupActive # {} THEN FirstOf(MarkupActive) ELSE TabOrder[1]

\* the step that ends the initial resolution, started with no fragment or with a
\* fragment that names no trigger
BootEndsWithoutFragmentTab ==
    /\ boot # "ready"
    /\ boot' = "ready"
    /\ StartFragment \notin TabIds

C12_AtMostOneActivePanel == Cardinality(panelActive) <= 1

\* between the fade-out timer and the fade-in timer of a switch that leaves
\* another panel
C12_Witness ==
    /\ pc = "fadeIn"
    /\ curPanel \in TabIds \ {target}
    /\ panelActive = {target}

\* the step in which a switch completes
SwitchCompletes == lastSwitch = "running" /\ lastSwitch' = "completed"

\* C13: the step that completes a switch dispatches one tabChange event whose
\* detail names the newly active tab, its panel and its trigger; no other step
\* (a request returned at the guard, a dropped request, an aborted switch)
\* dispatches one.
C13_NotifiedOncePerCompletedSwitch ==
    [][IF SwitchCompletes
       THEN /\ events' = events + 1
            /\ lastEvent' = [tabId |-> activeTab', tabElement |-> activeTab',
                             buttonElement |-> activeTab']
       ELSE UNCHANGED <<events, lastEvent>>]_vars

\* one switch completed and notified, then a request for another tab was
\* aborted by its load without a notification
C13_Witness ==
    /\ LoadFailed
    /\ events = 1
    /\ lastEvent.tabId = activeTab
    /\ lastEvent.tabElement = activeTab
    /\ lastEvent.buttonElement = activeTab
    /\ pre.target # activeTab

\* C14: whenever the controller is Idle, history holds exactly one pushed entry
\* per completed switch: a request for the active tab adds none, and no entry
\* stands for a switch that was not made.
C14_OneEntryPerCompletedSwitch == ~transitioning => historyLen = events

\* a step in which a move key passed focus to another trigger
KeyMoved == focus' # focus /\ focus'.by \in MoveKeys /\ tabButtons' = tabButtons

\* C15: a step in which an arrow key, Home or End moves focus changes nothing
\* else: activeTab, the phase, the load state, the fragment and the history stay,
\* no fetch starts and no request is issued; and a request issued from the
\* keyboard is for the trigger that holds focus, which keeps it.
C15_MoveKeysOnlyMoveFocus ==
    [][/\ KeyMoved => UNCHANGED <<boot, switchVars, ariaVars, menuOpen, lastReq>>
       /\ (IsRequest /\ lastReq'.via = "key")
             => (lastReq'.tab = focus.tab /\ focus' = focus)]_vars

\* with the first tab active and no request since construction, ArrowLeft has
\* wrapped focus from the first trigger to the last
C15_Witness ==
    /\ focus.tab = TabOrder[Len(TabOrder)]
    /\ focus.by = "ArrowLeft"
    /\ lastReq.via = "init"
    /\ lastSwitch = "completed"
    /\ activeTab = TabOrder[1]
    /\ hash = TabOrder[1]

\* no two elements of the list carry the same id
UniqueIds(elements) ==
    \A i, j \in 1..Len(elements) : elements[i].id = elements[j].id => i = j

\* C16: the triggers of the registry carry pairwise different ids, and so do
\* its panels; an addTab call whose id was present ended with DuplicateIdError.
C16_IdsStayUnique ==
    /\ UniqueIds(tabButtons)
    /\ UniqueIds(tabContents)
    /\ (lastCall.op = "addTab" /\ lastCall.present) => thrown = "DuplicateIdError"

\* C17: once removeTab was called on the active tab while another tab existed,
\* the call has returned normally, the tab has left the registry and another
\* trigger is active.
C17_ActiveRemovalSelectsReplacement ==
    (lastCall.op = "removeTab" /\ lastCall.active /\ lastCall.others) =>
        /\ thrown = "none"
        /\ FirstWithId(SelectSeq(tabButtons, IsActive), lastCall.id) = 0
        /\ \E i \in 1..Len(tabButtons) : IsActive(tabButtons[i])

\* C18: the step that completes a switch, however it was requested, ends with
\* the trigger menu closed.
C18_MenuClosedWhenSwitchCompletes == [][SwitchCompletes => ~menuOpen']_vars

\* a step of one of the menu and resize handlers
MenuStep == ToggleTabMenu \/ CloseTabMenu \/ HandleOutsideClick \/ HandleResize

C20_UnknownIdIsNotFoundError ==
    (lastReq.via = "api" /\ lastReq.tab \notin TabIds) => thrown = "NotFoundError"

\* C21: no switch ever ends at the missing-panel check of switchToTab: a
\* trigger without a panel was sorted out at startup and is never a switch
\* target, so a missing panel is never found (and reported) at switch time.
C21_MissingPanelNeverMetAtSwitchTime == lastSwitch # "noPanel"

\* C24: the address fragment is written only by the step that completes a
\* switch, after the load, the animation, activeTab and the accessibility
\* attributes; no earlier step of the switch writes it.
C24_FragmentPublishedAtCompletion == [][hash' # hash => SwitchCompletes]_vars

\* C25: a switch that was stopped by an image of the target panel failing to
\* load leaves a target that was not Loaded before not Loaded.
C25_ImageFailureLeavesNotLoaded ==
    (lastSwitch = "imageFailed" /\ pre.target \notin pre.loaded)
        => pre.target \notin loaded

\* getActiveTab(): this.activeTab
GetActiveTab == activeTab

\* C30: whenever the controller is Idle after construction, getActiveTab()
\* is the tab whose trigger carries the active class, and null exactly when no
\* trigger carries it.
C30_GetActiveTabIsActiveTrigger ==
    (boot = "ready" /\ ~transitioning) =>
        GetActiveTab = (IF btnActive = {} THEN Null ELSE FirstOf(btnActive))

ChainStarts == historyLen' # historyLen

C26_LoadedWrittenByLoaderOnly ==
    [][loaded' # loaded => (pc = "fetch" /\ loaded' = loaded \cup {target})]_vars

\* C28: a click on the Retry button of panel t starts a fetch for t.
C28_RetryStartsLoad ==
    [][\A t \in TabIds : RetryClick(t) => (pc' = "fetch" /\ target' = t)]_vars

\* C29: once destroy() was called, a click or a key press on a trigger changes
\* nothing a switch writes and leaves the menu as it is.
C29_NoHandlerAfterDestroy ==
    [][(destroyed /\ IsRequest /\ lastReq'.via \in {"click", "key"})
          => UNCHANGED <<switchVars, menuOpen>>]_vars

\* k presses of ArrowRight from index i in a list of n triggers
RECURSIVE NextTimes(_, _, _)
NextTimes(i, n, k) == IF k = 0 THEN i ELSE NextTimes(NextIndex(i, n), n, k - 1)

\* the index the claim names for a move key pressed at index i of n triggers
WrappedIndex(key, i, n) ==
    IF key \in {"ArrowLeft", "ArrowUp"} THEN (i + n - 1) % n
    ELSE IF key \in {"ArrowRight", "ArrowDown"} THEN (i + 1) % n
    ELSE IF key = "Home" THEN 0
    ELSE n - 1

\* the laws of focus movement in a list of n triggers
WrapsAt(n) ==
    \A i \in 0..(n - 1) :
        /\ \A key \in MoveKeys : FocusIndex(key, i, n) = WrappedIndex(key, i, n)
        /\ PreviousIndex(NextIndex(i, n), n) = i
        /\ NextIndex(PreviousIndex(i, n), n) = i
        /\ NextTimes(i, n, n) = i

\* C27: for the trigger list as every step leaves it (n triggers, n >= 1, also
\* after addTab and removeTab), next is (i+1) mod n, previous is (i-1) mod n,
\* Home is 0 and End is n-1, next then previous and n times next return to i;
\* and a step in which a move key moves focus puts it on the trigger at that
\* index of the list of that step.
C27_FocusWraps ==
    [][/\ Len(tabButtons') >= 1 => WrapsAt(Len(tabButtons'))
       /\ KeyMoved =>
            /\ focus'.n = Len(tabButtons)
            /\ focus'.at = WrappedIndex(focus'.by, focus.at, Len(tabButtons))
            /\ focus'.tab = tabButtons[focus'.at + 1].id]_vars

\* after addTab made the list one longer than the markup, ArrowRight on the
\* last trigger wrapped focus to index 0
C27_Witness ==
    /\ Len(tabButtons) = Len(TabOrder) + 1
    /\ focus.n = Len(tabButtons)
    /\ focus.by = "ArrowRight"
    /\ focus.at = 0

\* ------------------------------------------------------------------ removal during a switch

\* a removeTab call took a trigger and its panel out of the lists
TabWasRemoved == lastCall.op = "removeTab" /\ lastCall.present /\ thrown = "none"

\* C31: once the controller is Idle after a switch, a removal made on the way
\* left activeTab naming a trigger of the list, and, if triggers remain, one of
\* them carries the active class.
C31_RemovalLeavesActiveRegistered ==
    (TabWasRemoved /\ ~transitioning /\ lastSwitch = "completed")
        => /\ activeTab \in Registered
           /\ Registered # {} => btnActive \cap Registered # {}

\* ------------------------------------------------------------------ the tabChange event

C33_WindowHearsOncePerSwitch ==
    [][SwitchCompletes => windowHeard' = windowHeard + 1]_vars

\* ------------------------------------------------------------------ the toggle

\* C34: an activation of the toggle, by mouse or by touch, leaves the menu open
\* when it met it closed and closed when it met it open.
C34_ActivationFlipsMenuOnce ==
    [][lastTap' # lastTap => menuOpen' = ~lastTap'.wasOpen]_vars

\* ------------------------------------------------------------------ the counter animation

\* C35: a counter animation can still end with the element showing the target:
\* while its interval runs, the number shown has not passed the target, which
\* lies ahead of it in the direction of the step (each callback moves the
\* number one step that way and clears the interval only at the target); and a
\* cleared interval leaves the target shown.
C35_CounterHeadsForTarget ==
    /\ counter.timer = "running"
          => (counter.target - counter.current) * counter.increment >= 0
    /\ counter.timer = "cleared" => counter.text = counter.target

\* ------------------------------------------------------------------ the gallery lightbox

\* C36: a click on a displayed item opens the lightbox on that item's image,
\* whatever the filter; and while the lightbox is open, next and previous show
\* an item that matches the filter.
C36_LightboxShowsClickedItem ==
    [][/\ (gallery'.clicked # gallery.clicked /\ gallery'.clicked # 0)
            => (gallery'.active /\ gallery'.src = gallery'.clicked)
       /\ (gallery.active /\ gallery'.active)
            => gallery'.src \in Range(ItemsToShow(gallery.items, gallery.currentFilter))]_vars

\* ------------------------------------------------------------------ the events list

\* C37: once a filter or the load-more button has been clicked, the number of
\* cards displayed is the smaller of visibleEvents and the number of cards that
\* pass currentFilter, and the load-more button is shown exactly when a card
\* that passes is not displayed.
C37_DisplayedIsMinOfVisibleAndMatching ==
    eventList.loadMore \in {"none", "block"} =>
        LET matching == Len(Filtered(eventList.cards, eventList.currentFilter, 1))
        IN  /\ Cardinality(eventList.displayed) =
                  (IF eventList.visibleEvents < matching
                   THEN eventList.visibleEvents ELSE matching)
            /\ eventList.loadMore = "block"
                  <=> Cardinality(eventList.displayed) < matching

\* ------------------------------------------------------------------ program navigation

\* C38 as stated: once ProgramNavigation has been constructed, however often,
\* on a page with program links, each link has one click listener and window
\* one hashchange listener, and a click on a link runs switchProgram once.
C38_BoundOnce ==
    [][/\ (programNav'.constructions > 0 /\ programNav'.links > 0)
            => /\ programNav'.clickListeners = 1
               /\ programNav'.hashchangeListeners = 1
       /\ programNav'.clicks = programNav.clicks + 1
            => programNav'.switched = programNav.switched + 1]_vars

\* C38, amended: the same on a page that has program links and program
\* sections; on every page the listeners are bound at most once.
C38_BoundOnceWithSections ==
    [][/\ programNav'.clickListeners <= 1
       /\ programNav'.hashchangeListeners <= 1
       /\ (programNav'.constructions > 0 /\ programNav'.links > 0
              /\ programNav'.sections > 0)
            => /\ programNav'.clickListeners = 1
               /\ programNav'.hashchangeListeners = 1
       /\ (programNav'.clicks = programNav.clicks + 1 /\ programNav.sections > 0)
            => programNav'.switched = programNav.switched + 1]_vars

\* a link was clicked twice after the constructor had run three times on a
\* page with links and sections
C38_Witness ==
    /\ programNav.constructions = MaxConstructions
    /\ programNav.links > 0
    /\ programNav.sections > 0
    /\ programNav.clicks = 2
    /\ programNav.switched = 2

\* ------------------------------------------------------------------ site navigation

\* C39: the body carries no-scroll exactly when the menu carries active, and
\* the toggle carries active exactly when the menu does.
C39_NoScrollIffMenuOpen ==
    /\ navigation.noScroll <=> navigation.menu
    /\ navigation.toggle <=> navigation.menu

\* ------------------------------------------------------------------ debounce

\* C40: func runs only in a step that finds wait ticks passed since the most
\* recent call, with the arguments of that call, and not a second time before
\* the next call; until it has run for the most recent call, one timer is
\* pending, which holds the arguments of that call, and none after; and the
\* calls that were made while a timer was pending never ran func.
C40_RunsOncePerQuietPeriod ==
    [][/\ debounced'.runs # debounced.runs
            => /\ debounced'.runs = debounced.runs + 1
               /\ debounced.quiet >= debounced.wait
               /\ debounced'.ranWith = debounced.args
               /\ debounced.ranSinceCall = 0
       /\ Cardinality(debounced'.timers) <= 1
       /\ (debounced'.calls > 0 /\ debounced'.ranSinceCall = 0)
            <=> (\E t \in debounced'.timers : t.args = debounced'.args)
       /\ debounced'.runs + debounced'.superseded <= debounced'.calls]_vars

\* func has run once, with the arguments of the third call, after two calls
\* were superseded within the wait
C40_Witness ==
    /\ debounced.wait = MaxWait
    /\ debounced.calls = 3
    /\ debounced.superseded = 2
    /\ debounced.runs = 1
    /\ debounced.ranWith = debounced.args
    /\ debounced.timers = {}

====
